---- MODULE Spec2Model ----
(***************************************************************************)
(* A model of bot.py: the voice registry kept by Qwen3TTSManager           *)
(* (config['voices'], config['default_voice'], the configuration file and  *)
(* the voice library directory) and the per-user dialog state kept in      *)
(* context.user_data by the Telegram handlers.                             *)
(*                                                                         *)
(* Text is modelled as a sequence of characters, each character a          *)
(* one-element string; a non-ASCII character is written by its code point  *)
(* ("U+043F").  Floating point values are decimal numbers m * 10^(-e),      *)
(* kept normalised, plus nan.  Dictionaries of settings are objects on a   *)
(* heap, so that sharing one dictionary between two profiles is            *)
(* representable.  The creation timestamp of a profile is left out.        *)
(***************************************************************************)
EXTENDS Integers, Sequences, FiniteSets, TLC

VARIABLES
    config,     \* tts_manager.config: [default_voice, voices, order]
    heap,       \* the settings dictionaries: reference -> settings
    disk,       \* the content of bot_config.json
    library,    \* names whose directory voice_library/<name> exists
    tempfiles,  \* paths of the files present in temp_audio
    user_data,  \* context.user_data of every user
    now,        \* the clock, in seconds
    last,       \* who sent the last update, what every user's last update did,
                \* and the registry as the last update found it
    events,     \* number of updates handled so far
    faults,     \* number of storage faults injected so far
    dispatch    \* the application's update queue and the handlers running

vars == <<config, heap, disk, library, tempfiles, user_data, now, last, events, faults,
          dispatch>>

----------------------------------------------------------------------------
(* Bounds of the model. *)

MaxEvents == 4
MaxRaceEvents == 6
MaxFaults == 1

Users == {"u1", "u2"}

----------------------------------------------------------------------------
(* Characters and strings. *)

LowerLetters == <<"a","b","c","d","e","f","g","h","i","j","k","l","m",
                  "n","o","p","q","r","s","t","u","v","w","x","y","z">>
UpperLetters == <<"A","B","C","D","E","F","G","H","I","J","K","L","M",
                  "N","O","P","Q","R","S","T","U","V","W","X","Y","Z">>
Digits == <<"0","1","2","3","4","5","6","7","8","9">>
\* The Cyrillic letters of the skip word and of the generated descriptions.
CyrLower == <<"U+043F","U+0440","U+043E","U+0443","U+0441","U+0442","U+0438",
              "U+044C","U+043B","U+0437","U+0432","U+0430","U+0435","U+043A",
              "U+0439","U+0433","U+043D","U+044B">>
CyrUpper == <<"U+041F","U+0420","U+041E","U+0423","U+0421","U+0422","U+0418",
              "U+042C","U+041B","U+0417","U+0412","U+0410","U+0415","U+041A",
              "U+0419","U+0413","U+041D","U+042B">>
Whitespace == {" ", "\t", "\n"}

Range(s) == {s[i] : i \in 1..Len(s)}

IndexOf(s, c) == CHOOSE i \in 1..Len(s) : s[i] = c

\* str.lower(), character by character
LowerChar(c) ==
    IF c \in Range(UpperLetters) THEN LowerLetters[IndexOf(UpperLetters, c)]
    ELSE IF c \in Range(CyrUpper) THEN CyrLower[IndexOf(CyrUpper, c)]
    ELSE c

Lower(s) == [i \in 1..Len(s) |-> LowerChar(s[i])]

\* str.strip(): leading and trailing whitespace removed
RECURSIVE LStrip(_)
LStrip(s) == IF s # <<>> /\ Head(s) \in Whitespace THEN LStrip(Tail(s)) ELSE s

RECURSIVE RStrip(_)
RStrip(s) ==
    IF s # <<>> /\ s[Len(s)] \in Whitespace
    THEN RStrip(SubSeq(s, 1, Len(s) - 1)) ELSE s

Strip(s) == RStrip(LStrip(s))

\* str.startswith(prefix)
StartsWith(s, prefix) ==
    /\ Len(prefix) <= Len(s)
    /\ SubSeq(s, 1, Len(prefix)) = prefix

\* re.match(r'^[a-zA-Z0-9_]{3,30}$', s).  '$' also matches before one
\* trailing newline.
NameChars == Range(LowerLetters) \cup Range(UpperLetters) \cup Range(Digits) \cup {"_"}

NameBody(s) ==
    /\ Len(s) >= 3
    /\ Len(s) <= 30
    /\ \A i \in 1..Len(s) : s[i] \in NameChars

NameMatches(s) ==
    \/ NameBody(s)
    \/ /\ s # <<>>
       /\ s[Len(s)] = "\n"
       /\ NameBody(SubSeq(s, 1, Len(s) - 1))

----------------------------------------------------------------------------
(* Floating point values. *)

RECURSIVE Pow10(_)
Pow10(n) == IF n <= 0 THEN 1 ELSE 10 * Pow10(n - 1)

RECURSIVE Normal(_, _)
Normal(m, e) ==
    IF e > 0 /\ m % 10 = 0 THEN Normal(m \div 10, e - 1)
    ELSE [kind |-> "num", m |-> m, e |-> e]

Num(m, e) == Normal(m, e)
NaN == [kind |-> "nan", m |-> 0, e |-> 0]

----------------------------------------------------------------------------
(* Module constants and DEFAULT_CONFIG. *)

DEFAULT_VOICE_NAME == <<"d","e","f","a","u","l","t">>
MODEL_NAME == "Qwen/Qwen3-TTS-12Hz-1.7B-Base"

Neutral == <<"n","e","u","t","r","a","l">>
Ru == <<"r","u">>

\* "Golos po umolchaniyu", the description of the built-in profile
DefaultDescription ==
    <<"U+0413","U+043E","U+043B","U+043E","U+0441"," ","U+043F","U+043E"," ",
      "U+0443","U+043C","U+043E","U+043B","U+0447","U+0430","U+043D","U+0438","U+044E">>

\* "Polzovatelskiy golos: ", the prefix of a created profile's description
CreatedPrefix ==
    <<"U+041F","U+043E","U+043B","U+044C","U+0437","U+043E","U+0432","U+0430",
      "U+0442","U+0435","U+043B","U+044C","U+0441","U+043A","U+0438","U+0439"," ",
      "U+0433","U+043E","U+043B","U+043E","U+0441",":"," ">>

\* "Klonirovannyy golos: ", the prefix of a cloned profile's description
ClonedPrefix ==
    <<"U+041A","U+043B","U+043E","U+043D","U+0438","U+0440","U+043E","U+0432",
      "U+0430","U+043D","U+043D","U+044B","U+0439"," ",
      "U+0433","U+043E","U+043B","U+043E","U+0441",":"," ">>

\* a key that a dictionary does not hold
Absent == <<"<absent>">>

DefaultSettings ==
    [speed |-> Num(1, 0), pitch |-> Num(1, 0), volume |-> Num(1, 0),
     emotion |-> Neutral, language |-> Ru]

DEFAULT_CONFIG ==
    [default_voice |-> DEFAULT_VOICE_NAME,
     order |-> <<DEFAULT_VOICE_NAME>>,
     voices |-> [n \in {DEFAULT_VOICE_NAME} |->
                    [model |-> MODEL_NAME,
                     settings |-> 0,
                     cloned |-> FALSE,
                     cloned_from |-> Absent,
                     reference_text |-> Absent,
                     description |-> DefaultDescription]]]

DefaultHeap == [r \in {0} |-> DefaultSettings]

----------------------------------------------------------------------------
(* Qwen3TTSManager.  The manager's state is the record                     *)
(* [config, heap, disk, library]; every method is an operator from a       *)
(* manager state and its arguments to the manager state it leaves, what it *)
(* returns (ok, msg) and whether it raised.  The argument io names the     *)
(* storage fault the call meets, "ok" for none.                            *)

Manager == [config |-> config, heap |-> heap, disk |-> disk, library |-> library]

Voices(m) == m.config.voices
Names(m) == DOMAIN m.config.voices

\* the settings dictionary of a profile
SettingsOf(m, name) == m.heap[m.config.voices[name].settings]

\* what json.dump writes: the registry with every settings dictionary by value
Snapshot(m) ==
    [default_voice |-> m.config.default_voice,
     order |-> m.config.order,
     voices |-> [n \in Names(m) |->
                    [model |-> Voices(m)[n].model,
                     settings |-> SettingsOf(m, n),
                     cloned |-> Voices(m)[n].cloned,
                     cloned_from |-> Voices(m)[n].cloned_from,
                     reference_text |-> Voices(m)[n].reference_text,
                     description |-> Voices(m)[n].description]]]

NoSnapshot == [default_voice |-> <<>>, order |-> <<>>, voices |-> <<>>]

NoFile == [status |-> "absent", content |-> NoSnapshot]
Truncated == [status |-> "truncated", content |-> NoSnapshot]
Saved(m) == [status |-> "saved", content |-> Snapshot(m)]

Result(m, ok, msg, raised) == [m |-> m, ok |-> ok, msg |-> msg, raised |-> raised]

\* save_config: open(CONFIG_FILE, 'w') truncates the file, json.dump writes it;
\* under write_fails the write raises once the file is open
save_config(m, io) ==
    IF io = "write_fails"
    THEN Result([m EXCEPT !.disk = Truncated], FALSE, "OSError", TRUE)
    ELSE Result([m EXCEPT !.disk = Saved(m)], TRUE, "saved", FALSE)

\* get_voice_list: the keys of config['voices'] in insertion order
get_voice_list(m) == m.config.order

\* a dictionary no profile refers to any more is freed
Collect(m) ==
    LET used == {Voices(m)[n].settings : n \in Names(m)}
    IN [m EXCEPT !.heap = [r \in DOMAIN m.heap \cap used |-> m.heap[r]]]

\* dict.copy(): a new dictionary with the same items
NewRef(h) == CHOOSE r \in 0..Cardinality(DOMAIN h) :
                /\ r \notin DOMAIN h
                /\ \A q \in 0..Cardinality(DOMAIN h) : q \notin DOMAIN h => r <= q

Allocate(h, value) == [r \in DOMAIN h \cup {NewRef(h)} |->
                          IF r \in DOMAIN h THEN h[r] ELSE value]

\* config['voices'][name] = profile: a new key goes last, an old key keeps its place
SetVoice(c, name, profile) ==
    [c EXCEPT !.voices = [n \in DOMAIN c.voices \cup {name} |->
                             IF n = name THEN profile ELSE c.voices[n]],
              !.order = IF name \in DOMAIN c.voices THEN c.order
                        ELSE Append(c.order, name)]

\* were a deletion to take the later profiles with it
DelVoice_AndLater(c, name) ==
    LET i == CHOOSE k \in 1..Len(c.order) : c.order[k] = name
        kept == SubSeq(c.order, 1, i - 1)
    IN [c EXCEPT !.voices = [n \in Range(kept) |-> c.voices[n]],
                 !.order = kept]

\* del config['voices'][name]
DelVoice(c, name) ==
    [c EXCEPT !.voices = [n \in DOMAIN c.voices \ {name} |-> c.voices[n]],
              !.order = SelectSeq(c.order, LAMBDA n : n # name)]

\* were the template the profile the default pointer designates
TemplateName_Pointer(m) == m.config.default_voice

\* the profile create_voice and clone_voice take model and settings from
TemplateName(m) == DEFAULT_VOICE_NAME

\* were the settings handed over without .copy(): the template's own dictionary
SeedSettingsRef_Shared(m) == m.config.voices[DEFAULT_VOICE_NAME].settings

\* the dictionary given to a new profile: ['settings'].copy() is a new one
SeedSettingsRef(m) == NewRef(m.heap)

\* the heap once the new profile has its dictionary
SeedHeap(m) ==
    IF SeedSettingsRef(m) \in DOMAIN m.heap THEN m.heap
    ELSE Allocate(m.heap, SettingsOf(m, TemplateName(m)))

\* were the description given to create_voice dropped
CreatedProfile_NoDescription(m, voice_name, description) ==
    [model |-> m.config.voices[TemplateName(m)].model,
     settings |-> SeedSettingsRef(m),
     cloned |-> FALSE,
     cloned_from |-> Absent,
     reference_text |-> Absent,
     description |-> CreatedPrefix \o voice_name]

\* were create_voice to lack its existence check
NameTaken_Never(m, voice_name) == FALSE

\* the existence check of create_voice
NameTaken(m, voice_name) == voice_name \in Names(m)

CreatedProfile(m, voice_name, description) ==
    [model |-> m.config.voices[TemplateName(m)].model,
     settings |-> SeedSettingsRef(m),
     cloned |-> FALSE,
     cloned_from |-> Absent,
     reference_text |-> Absent,
     description |-> IF description # <<>> THEN description
                     ELSE CreatedPrefix \o voice_name]

\* create_voice(voice_name, description=description)
create_voice(m, voice_name, description, io) ==
    IF NameTaken(m, voice_name)
    THEN Result(m, FALSE, "AlreadyExists", FALSE)
    ELSE LET m1 == [m EXCEPT
                       !.config = SetVoice(m.config, voice_name,
                                           CreatedProfile(m, voice_name, description)),
                       !.heap = SeedHeap(m)]
             s == save_config(m1, io)
         IN IF s.raised THEN s
            ELSE Result(s.m, TRUE, "created", FALSE)

\* os.path.join(VOICE_LIBRARY_DIR, voice_name, "reference_audio.wav")
ClonedAudioPath(voice_name) == <<"voice_library">> \o voice_name \o <<"reference_audio.wav">>

ClonedProfile(m, voice_name, reference_text, description) ==
    [model |-> m.config.voices[TemplateName(m)].model,
     settings |-> SeedSettingsRef(m),
     cloned |-> TRUE,
     cloned_from |-> ClonedAudioPath(voice_name),
     reference_text |-> reference_text,
     description |-> IF description # <<>> THEN description
                     ELSE ClonedPrefix \o voice_name]

\* were clone_voice to refuse every name that is present
CloneRefused_AnyPresent(m, voice_name) == voice_name \in Names(m)

CloneRefused_Never(m, voice_name) == FALSE

\* the existence check of clone_voice
CloneRefused(m, voice_name) ==
    voice_name \in Names(m) /\ voice_name # DEFAULT_VOICE_NAME

\* clone_voice(voice_name, audio_path, reference_text, description); every
\* exception is caught and returned as a failure.  present: audio_path exists.
clone_voice(m, voice_name, present, reference_text, description, io) ==
    IF CloneRefused(m, voice_name)
    THEN Result(m, FALSE, "AlreadyExists", FALSE)
    ELSE LET m0 == [m EXCEPT !.library = @ \cup {voice_name}]
         IN IF io = "copy_fails" \/ ~present
            THEN Result(m0, FALSE, "CloneError", FALSE)
            ELSE LET m1 == Collect([m0 EXCEPT
                               !.config = SetVoice(m.config, voice_name,
                                              ClonedProfile(m, voice_name, reference_text,
                                                            description)),
                               !.heap = SeedHeap(m)])
                     s == save_config(m1, io)
                 IN IF s.raised THEN Result(s.m, FALSE, "CloneError", FALSE)
                    ELSE Result(s.m, TRUE, "cloned", FALSE)

\* were the protected profile the one the default pointer designates
IsProtected_Pointer(m, voice_name) == voice_name = m.config.default_voice

\* were no profile protected
IsProtected_None(m, voice_name) == FALSE

\* the guard of delete_voice that protects a profile
IsProtected(m, voice_name) == voice_name = DEFAULT_VOICE_NAME

\* were the pointer left as it is by a deletion
PointerAfterDelete_Kept(m, voice_name) == m.config.default_voice

\* the pointer after del config['voices'][voice_name]
PointerAfterDelete(m, voice_name) ==
    IF m.config.default_voice = voice_name THEN DEFAULT_VOICE_NAME
    ELSE m.config.default_voice

\* delete_voice(voice_name); a failure of shutil.rmtree is caught and logged
delete_voice(m, voice_name, io) ==
    IF voice_name \notin Names(m) THEN Result(m, FALSE, "NotFound", FALSE)
    ELSE IF IsProtected(m, voice_name) THEN Result(m, FALSE, "IsDefaultVoice", FALSE)
    ELSE LET m1 == Collect([m EXCEPT
                       !.library = IF io = "rmtree_fails" THEN @ ELSE @ \ {voice_name},
                       !.config = [DelVoice(m.config, voice_name) EXCEPT
                                      !.default_voice = PointerAfterDelete(m, voice_name)]])
             s == save_config(m1, io)
         IN IF s.raised THEN s
            ELSE Result(s.m, TRUE, "deleted", FALSE)

Merged_Replaced(old, settings) == settings

\* dict.update(settings): the keys given replace or extend the dictionary
Merged(old, settings) ==
    [k \in DOMAIN old \cup DOMAIN settings |->
        IF k \in DOMAIN settings THEN settings[k] ELSE old[k]]

\* update_voice_settings(voice_name, settings)
update_voice_settings(m, voice_name, settings, io) ==
    IF voice_name \notin Names(m) THEN Result(m, FALSE, "NotFound", FALSE)
    ELSE LET r == m.config.voices[voice_name].settings
             m1 == [m EXCEPT !.heap[r] = Merged(@, settings)]
             s == save_config(m1, io)
         IN IF s.raised THEN s
            ELSE Result(s.m, TRUE, "updated", FALSE)

set_default_voice_Toggled(m, voice_name, io) ==
    IF voice_name \notin Names(m) THEN Result(m, FALSE, "NotFound", FALSE)
    ELSE LET m1 == [m EXCEPT !.config.default_voice =
                        IF @ = voice_name THEN DEFAULT_VOICE_NAME ELSE voice_name]
             s == save_config(m1, io)
         IN IF s.raised THEN s
            ELSE Result(s.m, TRUE, "selected", FALSE)

\* set_default_voice(voice_name)
set_default_voice(m, voice_name, io) ==
    IF voice_name \notin Names(m) THEN Result(m, FALSE, "NotFound", FALSE)
    ELSE LET m1 == [m EXCEPT !.config.default_voice = voice_name]
             s == save_config(m1, io)
         IN IF s.raised THEN s
            ELSE Result(s.m, TRUE, "selected", FALSE)

\* The description edit of handle_text_input: get_voice_info returns None for
\* a missing profile and the item assignment raises TypeError.
set_description(m, voice_name, description, io) ==
    IF voice_name \notin Names(m) THEN Result(m, FALSE, "TypeError", TRUE)
    ELSE LET m1 == [m EXCEPT !.config.voices[voice_name].description = description]
             s == save_config(m1, io)
         IN IF s.raised THEN s
            ELSE Result(s.m, TRUE, "described", FALSE)

----------------------------------------------------------------------------
(* More string operations, used on callback data. *)

\* str.replace(old, ""): every occurrence of old removed, leftmost first
RECURSIVE Remove(_, _)
Remove(s, old) ==
    IF s = <<>> \/ old = <<>> THEN s
    ELSE IF StartsWith(s, old) THEN Remove(SubSeq(s, Len(old) + 1, Len(s)), old)
    ELSE <<Head(s)>> \o Remove(Tail(s), old)

\* str.split(sep) for a separator of one character
RECURSIVE Split(_, _)
Split(s, sep) ==
    IF \A i \in 1..Len(s) : s[i] # sep THEN <<s>>
    ELSE LET i == CHOOSE j \in 1..Len(s) :
                     s[j] = sep /\ \A k \in 1..(j - 1) : s[k] # sep
         IN <<SubSeq(s, 1, i - 1)>> \o Split(SubSeq(s, i + 1, Len(s)), sep)

\* sep.join(parts)
RECURSIVE Join(_, _)
Join(parts, sep) ==
    IF parts = <<>> THEN <<>>
    ELSE IF Len(parts) = 1 THEN parts[1]
    ELSE parts[1] \o <<sep>> \o Join(Tail(parts), sep)

----------------------------------------------------------------------------
(* context.user_data.  A key a user's dictionary does not hold is Absent;  *)
(* the flags read with .get() are FALSE when not held.                     *)

IdleSession ==
    [adjusting_param |-> Absent,          \* <<type, voice>>
     editing_description |-> Absent,      \* voice name
     awaiting_voice_name |-> FALSE,
     awaiting_voice_description |-> FALSE,
     new_voice_name |-> Absent,
     pending_text |-> Absent,
     awaiting_voice_audio |-> FALSE,
     awaiting_cloned_voice_name |-> FALSE,
     awaiting_cloned_voice_description |-> FALSE,
     cloned_voice_name |-> Absent,
     voice_audio_path |-> Absent,
     cloning_voice |-> Absent]

\* The state the handlers work on.
World ==
    [m |-> Manager, tempfiles |-> tempfiles, user_data |-> user_data, now |-> now]

NoCall == <<>>

\* What a handler did: the manager method it called (if any), on which name
\* and with which settings, what the method returned, the answer sent and
\* whether the handler raised.
Did(user, call, name, ok, msg, raised) ==
    [user |-> user, call |-> call, name |-> name, arg |-> NoCall, ok |-> ok,
     msg |-> msg, raised |-> raised]

Out(w, d) == [w |-> w, last |-> d]

\* a handler that only answers
Answer(w, u, msg) == Out(w, Did(u, "none", NoCall, TRUE, msg, FALSE))

\* a handler ended by an exception nobody catches
Raise(w, u, msg) == Out(w, Did(u, "none", NoCall, FALSE, msg, TRUE))

\* the outcome of a manager call as the handler's record
Called(u, call, name, r) == Did(u, call, name, r.ok, r.msg, r.raised)

\* the outcome of update_voice_settings(name, settings)
CalledWith(u, call, name, settings, r) ==
    [Called(u, call, name, r) EXCEPT !.arg = settings]

----------------------------------------------------------------------------
(* float(text): surrounding whitespace and a sign are accepted, then nan,  *)
(* inf, infinity (in any case) or digits with at most one point.           *)
(* Exponents and digit separators are not modelled: they raise here.       *)

DigitValue(c) == IndexOf(Digits, c) - 1

RECURSIVE DigitsValue(_)
DigitsValue(s) ==
    IF s = <<>> THEN 0
    ELSE 10 * DigitsValue(SubSeq(s, 1, Len(s) - 1)) + DigitValue(s[Len(s)])

AllDigits(s) == \A i \in 1..Len(s) : s[i] \in Range(Digits)

Inf(sign) == [kind |-> "inf", m |-> sign, e |-> 0]

ParseUnsigned(s, sign) ==
    LET low == Lower(s)
        parts == Split(s, ".")
    IN IF low = <<"n","a","n">> THEN [ok |-> TRUE, value |-> NaN]
       ELSE IF low \in {<<"i","n","f">>, <<"i","n","f","i","n","i","t","y">>}
       THEN [ok |-> TRUE, value |-> Inf(sign)]
       ELSE IF Len(parts) = 1 /\ s # <<>> /\ AllDigits(s)
       THEN [ok |-> TRUE, value |-> Num(sign * DigitsValue(s), 0)]
       ELSE IF /\ Len(parts) = 2
               /\ AllDigits(parts[1]) /\ AllDigits(parts[2])
               /\ parts[1] \o parts[2] # <<>>
       THEN [ok |-> TRUE,
             value |-> Num(sign * DigitsValue(parts[1] \o parts[2]), Len(parts[2]))]
       ELSE [ok |-> FALSE, value |-> NaN]

ParseFloat(text) ==
    LET s == Strip(text)
    IN IF s # <<>> /\ Head(s) = "-" THEN ParseUnsigned(Tail(s), -1)
       ELSE IF s # <<>> /\ Head(s) = "+" THEN ParseUnsigned(Tail(s), 1)
       ELSE ParseUnsigned(s, 1)

\* a < b on floats, infinities included; every comparison with nan is false
Less(a, b) ==
    IF a.kind = "nan" \/ b.kind = "nan" THEN FALSE
    ELSE IF a.kind = "inf" THEN a.m < 0 /\ ~(b.kind = "inf" /\ b.m < 0)
    ELSE IF b.kind = "inf" THEN b.m > 0
    ELSE a.m * Pow10(b.e) < b.m * Pow10(a.e)

----------------------------------------------------------------------------
(* handle_text_input *)

Speed == <<"s","p","e","e","d">>
Pitch == <<"p","i","t","c","h">>
Volume == <<"v","o","l","u","m","e">>
Emotion == <<"e","m","o","t","i","o","n">>
Language == <<"l","a","n","g","u","a","g","e">>

Happy == <<"h","a","p","p","y">>
Sad == <<"s","a","d">>
Angry == <<"a","n","g","r","y">>
Excited == <<"e","x","c","i","t","e","d">>
valid_emotions == {Neutral, Happy, Sad, Angry, Excited}

ParamKey_Speed(param_type) == "speed"

\* the settings key a parameter type names
ParamKey(param_type) ==
    CASE param_type = Speed -> "speed"
      [] param_type = Pitch -> "pitch"
      [] param_type = Volume -> "volume"
      [] param_type = Emotion -> "emotion"
      [] param_type = Language -> "language"

\* {key: value}
Single(key, value) == [k \in {key} |-> value]

\* the range checks of the numeric parameters
OutOfRange(param_type, value) ==
    \/ param_type = Speed /\ (Less(value, Num(5, 1)) \/ Less(Num(2, 0), value))
    \/ param_type = Pitch /\ (Less(value, Num(5, 1)) \/ Less(Num(2, 0), value))
    \/ param_type = Volume /\ (Less(value, Num(1, 1)) \/ Less(Num(2, 0), value))

\* the branch taken while 'adjusting_param' is in user_data
TextAdjustingParam(w, u, text, io) ==
    LET param_type == w.user_data[u].adjusting_param[1]
        voice_name == w.user_data[u].adjusting_param[2]
        cleared == [w EXCEPT !.user_data[u].adjusting_param = Absent]
    IN IF param_type \in {Speed, Pitch, Volume}
       THEN LET parsed == ParseFloat(text)
                settings == Single(ParamKey(param_type), parsed.value)
                r == update_voice_settings(w.m, voice_name, settings, io)
            IN IF ~parsed.ok THEN Answer(w, u, "NotANumber")
               ELSE IF OutOfRange(param_type, parsed.value) THEN Answer(w, u, "OutOfRange")
               ELSE IF r.raised
               THEN Out([w EXCEPT !.m = r.m],
                        CalledWith(u, "update_voice_settings", voice_name,
                                   settings, r))
               ELSE Out([cleared EXCEPT !.m = r.m],
                        CalledWith(u, "update_voice_settings", voice_name,
                                   settings, r))
       ELSE IF param_type = Emotion
       THEN LET emotion == Lower(text)
                settings == Single("emotion", emotion)
                r == update_voice_settings(w.m, voice_name, settings, io)
            IN IF emotion \notin valid_emotions THEN Answer(w, u, "InvalidEmotion")
               ELSE IF r.raised
               THEN Out([w EXCEPT !.m = r.m],
                        CalledWith(u, "update_voice_settings", voice_name,
                                   settings, r))
               ELSE Out([cleared EXCEPT !.m = r.m],
                        CalledWith(u, "update_voice_settings", voice_name,
                                   settings, r))
       ELSE Answer(cleared, u, "none")

MAX_DESCRIPTION_LENGTH == 200

\* the branch taken while 'editing_description' is in user_data
TextEditingDescription(w, u, text, io) ==
    LET voice_name == w.user_data[u].editing_description
        description == Strip(text)
        r == set_description(w.m, voice_name, description, io)
    IN IF Len(description) > MAX_DESCRIPTION_LENGTH THEN Answer(w, u, "TooLong")
       ELSE IF r.raised
       THEN Out([w EXCEPT !.m = r.m], Called(u, "set_description", voice_name, r))
       ELSE Out([w EXCEPT !.m = r.m, !.user_data[u].editing_description = Absent],
                Called(u, "set_description", voice_name, r))

TextAwaitingVoiceName_Stays(w, u, text) ==
    LET voice_name == Strip(text)
    IN IF ~NameMatches(voice_name) THEN Answer(w, u, "InvalidName")
       ELSE IF voice_name \in Range(get_voice_list(w.m)) THEN Answer(w, u, "AlreadyExists")
       ELSE Answer([w EXCEPT !.user_data[u].new_voice_name = voice_name,
                             !.user_data[u].awaiting_voice_description = TRUE],
                   u, "AskDescription")

TextAwaitingVoiceName_Unchecked(w, u, text) ==
    LET voice_name == Strip(text)
    IN IF ~NameMatches(voice_name) THEN Answer(w, u, "InvalidName")
       ELSE Answer([w EXCEPT !.user_data[u].new_voice_name = voice_name,
                             !.user_data[u].awaiting_voice_name = FALSE,
                             !.user_data[u].awaiting_voice_description = TRUE],
                   u, "AskDescription")

\* the branch taken while awaiting_voice_name is set
TextAwaitingVoiceName(w, u, text) ==
    LET voice_name == Strip(text)
    IN IF ~NameMatches(voice_name) THEN Answer(w, u, "InvalidName")
       ELSE IF voice_name \in Range(get_voice_list(w.m)) THEN Answer(w, u, "AlreadyExists")
       ELSE Answer([w EXCEPT !.user_data[u].new_voice_name = voice_name,
                             !.user_data[u].awaiting_voice_name = FALSE,
                             !.user_data[u].awaiting_voice_description = TRUE],
                   u, "AskDescription")

\* "propustit", skip, -
SkipWord == <<"U+043F","U+0440","U+043E","U+043F","U+0443","U+0441","U+0442",
              "U+0438","U+0442","U+044C">>
SkipTokens == {SkipWord, <<"s","k","i","p">>, <<"-">>}

\* the branch taken while awaiting_voice_description is set
TextAwaitingVoiceDescription(w, u, text, io) ==
    LET voice_name == w.user_data[u].new_voice_name
        stripped == Strip(text)
        description == IF Lower(stripped) \in SkipTokens
                       THEN CreatedPrefix \o voice_name ELSE stripped
        r == create_voice(w.m, voice_name, description, io)
    IN IF voice_name = Absent THEN Raise(w, u, "KeyError")
       ELSE IF r.raised
       THEN Out([w EXCEPT !.m = r.m], Called(u, "create_voice", voice_name, r))
       ELSE Out([w EXCEPT !.m = r.m,
                          !.user_data[u].awaiting_voice_description = FALSE,
                          !.user_data[u].new_voice_name = Absent],
                Called(u, "create_voice", voice_name, r))

MAX_TEXT_LENGTH == 1000
MIN_TEXT_LENGTH == 2

synthesize_text_handler_Unchecked(w, u, message_text) ==
    Answer([w EXCEPT !.user_data[u].pending_text = Strip(message_text)], u, "ChooseVoice")

\* synthesize_text_handler
synthesize_text_handler(w, u, message_text) ==
    LET text == Strip(message_text)
    IN IF Len(text) > MAX_TEXT_LENGTH THEN Answer(w, u, "TextTooLong")
       ELSE IF Len(text) < MIN_TEXT_LENGTH THEN Answer(w, u, "TextTooShort")
       ELSE Answer([w EXCEPT !.user_data[u].pending_text = text], u, "ChooseVoice")

handle_text_input_NameFirst(w, u, text, io) ==
    IF w.user_data[u].adjusting_param # Absent THEN TextAdjustingParam(w, u, text, io)
    ELSE IF w.user_data[u].awaiting_voice_name THEN TextAwaitingVoiceName(w, u, text)
    ELSE IF w.user_data[u].editing_description # Absent
    THEN TextEditingDescription(w, u, text, io)
    ELSE IF w.user_data[u].awaiting_voice_description
    THEN TextAwaitingVoiceDescription(w, u, text, io)
    ELSE IF w.user_data[u].pending_text # Absent THEN synthesize_text_handler(w, u, text)
    ELSE Answer(w, u, "UseMenu")

handle_text_input(w, u, text, io) ==
    IF w.user_data[u].adjusting_param # Absent THEN TextAdjustingParam(w, u, text, io)
    ELSE IF w.user_data[u].editing_description # Absent
    THEN TextEditingDescription(w, u, text, io)
    ELSE IF w.user_data[u].awaiting_voice_name THEN TextAwaitingVoiceName(w, u, text)
    ELSE IF w.user_data[u].awaiting_voice_description
    THEN TextAwaitingVoiceDescription(w, u, text, io)
    ELSE IF w.user_data[u].pending_text # Absent THEN synthesize_text_handler(w, u, text)
    ELSE Answer(w, u, "UseMenu")

----------------------------------------------------------------------------
(* button_callback: the callback data and their prefixes. *)

D_voices_page == <<"v","o","i","c","e","s","_","p","a","g","e","_">>
D_select_voice == <<"s","e","l","e","c","t","_","v","o","i","c","e","_">>
D_voice_menu == <<"v","o","i","c","e","_","m","e","n","u","_">>
D_settings == <<"s","e","t","t","i","n","g","s","_">>
D_adjust == <<"a","d","j","u","s","t","_">>
D_set_emotion == <<"s","e","t","_","e","m","o","t","i","o","n","_">>
D_set_lang == <<"s","e","t","_","l","a","n","g","_">>
D_save_settings == <<"s","a","v","e","_","s","e","t","t","i","n","g","s","_">>
D_clone_this == <<"c","l","o","n","e","_","t","h","i","s","_">>
D_edit_desc == <<"e","d","i","t","_","d","e","s","c","_">>
D_delete_confirm == <<"d","e","l","e","t","e","_","c","o","n","f","i","r","m","_">>
D_delete_voice == <<"d","e","l","e","t","e","_","v","o","i","c","e","_">>
D_create_new_voice == <<"c","r","e","a","t","e","_","n","e","w","_","v","o","i","c","e">>
D_back_to_main == <<"b","a","c","k","_","t","o","_","m","a","i","n">>
D_back_to_voices == <<"b","a","c","k","_","t","o","_","v","o","i","c","e","s">>
D_noop == <<"n","o","o","p">>

\* get_voice_info(voice_name) is None
Missing(w, voice_name) == voice_name \notin Names(w.m)

ButtonSelectVoice(w, u, data, io) ==
    LET voice_name == Remove(data, D_select_voice)
        r == set_default_voice(w.m, voice_name, io)
    IN Out([w EXCEPT !.m = r.m], Called(u, "set_default_voice", voice_name, r))

\* voice_menu_, settings_, save_settings_: a keyboard built from the profile
ButtonShow(w, u, voice_name) ==
    IF Missing(w, voice_name) THEN Raise(w, u, "TypeError")
    ELSE Answer(w, u, "Menu")

ButtonAdjust(w, u, data) ==
    LET parts == Split(data, "_")
        param_type == parts[2]
        voice_name == Join(SubSeq(parts, 3, Len(parts)), "_")
        w1 == [w EXCEPT !.user_data[u].adjusting_param = <<param_type, voice_name>>]
    IN IF Missing(w, voice_name) THEN Raise(w1, u, "TypeError")
       ELSE IF param_type \notin {Speed, Pitch, Volume, Emotion, Language}
       THEN Raise(w1, u, "KeyError")
       ELSE Answer(w1, u, "AskValue")

ButtonSetEmotion(w, u, data, io) ==
    LET parts == Split(data, "_")
        voice_name == parts[3]
        emotion == parts[4]
        settings == Single("emotion", emotion)
        r == update_voice_settings(w.m, voice_name, settings, io)
    IN IF Len(parts) < 4 THEN Raise(w, u, "IndexError")
       ELSE Out([w EXCEPT !.m = r.m], CalledWith(u, "update_voice_settings", voice_name,
                                   settings, r))

ButtonSetLang(w, u, data, io) ==
    LET parts == Split(data, "_")
        voice_name == parts[3]
        language == parts[4]
        settings == Single("language", language)
        r == update_voice_settings(w.m, voice_name, settings, io)
    IN IF Len(parts) < 4 THEN Raise(w, u, "IndexError")
       ELSE Out([w EXCEPT !.m = r.m], CalledWith(u, "update_voice_settings", voice_name,
                                   settings, r))

ButtonCloneThis(w, u, data) ==
    Answer([w EXCEPT !.user_data[u].cloning_voice = Remove(data, D_clone_this)],
           u, "AskAudio")

ButtonEditDesc(w, u, data) ==
    LET voice_name == Remove(data, D_edit_desc)
        w1 == [w EXCEPT !.user_data[u].editing_description = voice_name]
    IN IF Missing(w, voice_name) THEN Raise(w1, u, "AttributeError")
       ELSE Answer(w1, u, "AskDescription")

ButtonDeleteConfirm(w, u, data) ==
    IF Remove(data, D_delete_confirm) = DEFAULT_VOICE_NAME
    THEN Answer(w, u, "IsDefaultVoice")
    ELSE Answer(w, u, "Confirm")

ButtonDeleteVoice(w, u, data, io) ==
    LET voice_name == Remove(data, D_delete_voice)
        r == delete_voice(w.m, voice_name, io)
    IN Out([w EXCEPT !.m = r.m], Called(u, "delete_voice", voice_name, r))

ButtonCreateNewVoice(w, u) ==
    Answer([w EXCEPT !.user_data[u].awaiting_voice_name = TRUE], u, "AskName")

button_callback(w, u, data, io) ==
    IF StartsWith(data, D_voices_page) THEN Answer(w, u, "Menu")
    ELSE IF StartsWith(data, D_select_voice) THEN ButtonSelectVoice(w, u, data, io)
    ELSE IF StartsWith(data, D_voice_menu)
    THEN ButtonShow(w, u, Remove(data, D_voice_menu))
    ELSE IF StartsWith(data, D_settings)
    THEN ButtonShow(w, u, Remove(data, D_settings))
    ELSE IF StartsWith(data, D_adjust) THEN ButtonAdjust(w, u, data)
    ELSE IF StartsWith(data, D_set_emotion) THEN ButtonSetEmotion(w, u, data, io)
    ELSE IF StartsWith(data, D_set_lang) THEN ButtonSetLang(w, u, data, io)
    ELSE IF StartsWith(data, D_save_settings)
    THEN ButtonShow(w, u, Remove(data, D_save_settings))
    ELSE IF StartsWith(data, D_clone_this) THEN ButtonCloneThis(w, u, data)
    ELSE IF StartsWith(data, D_edit_desc) THEN ButtonEditDesc(w, u, data)
    ELSE IF StartsWith(data, D_delete_confirm) THEN ButtonDeleteConfirm(w, u, data)
    ELSE IF StartsWith(data, D_delete_voice) THEN ButtonDeleteVoice(w, u, data, io)
    ELSE IF data = D_create_new_voice THEN ButtonCreateNewVoice(w, u)
    ELSE IF data = D_back_to_main THEN Answer(w, u, "MainMenu")
    ELSE IF data = D_back_to_voices THEN Answer(w, u, "Menu")
    ELSE Answer(w, u, "none")

\* create_voice_handler and clone_voice_handler, the menu entries
create_voice_handler(w, u) ==
    Answer([w EXCEPT !.user_data[u].awaiting_voice_name = TRUE], u, "AskName")

clone_voice_handler(w, u) ==
    Answer([w EXCEPT !.user_data[u].awaiting_voice_audio = TRUE], u, "AskAudio")

----------------------------------------------------------------------------
(* handle_audio.  A message is [text, probe, duration]: text is Absent     *)
(* (None) for a voice, audio or audio document message; probe tells        *)
(* whether librosa could measure the file, duration what it measured.      *)

MAX_VOICE_DURATION == 30
MIN_VOICE_DURATION == 1

\* os.path.join(TEMP_DIR, f"voice_{timestamp}.ogg"), timestamp to the second
TempPath(w) == <<"temp_audio", w.now>>

\* the branch taken while awaiting_voice_audio is set
AudioAwaitingVoiceAudio(w, u, message, io) ==
    LET temp_path == TempPath(w)
        removed == [w EXCEPT !.tempfiles = @ \ {temp_path}]
        stored == [w EXCEPT !.tempfiles = @ \cup {temp_path}]
        advanced(x) == [x EXCEPT !.user_data[u].voice_audio_path = temp_path,
                                 !.user_data[u].awaiting_voice_audio = FALSE,
                                 !.user_data[u].awaiting_cloned_voice_name = TRUE]
    IN IF io = "download_fails" THEN Answer(removed, u, "AudioError")
       ELSE IF message.probe # "ok"
       THEN \* duration is unbound when the answer is formatted: the outer
            \* handler removes the file after user_data was written
            Answer(advanced(removed), u, "AudioError")
       ELSE IF Less(Num(MAX_VOICE_DURATION, 0), message.duration)
       THEN Answer(removed, u, "AudioTooLong")
       ELSE IF Less(message.duration, Num(MIN_VOICE_DURATION, 0))
       THEN Answer(removed, u, "AudioTooShort")
       ELSE Answer(advanced(stored), u, "AskName")

\* the branch taken while awaiting_cloned_voice_name is set
AudioAwaitingClonedVoiceName(w, u, message) ==
    LET voice_name == Strip(message.text)
    IN IF message.text = Absent THEN Raise(w, u, "AttributeError")
       ELSE IF ~NameMatches(voice_name) THEN Answer(w, u, "InvalidName")
       ELSE IF voice_name \in Range(get_voice_list(w.m)) THEN Answer(w, u, "AlreadyExists")
       ELSE Answer([w EXCEPT !.user_data[u].cloned_voice_name = voice_name,
                             !.user_data[u].awaiting_cloned_voice_name = FALSE,
                             !.user_data[u].awaiting_cloned_voice_description = TRUE],
                   u, "AskDescription")

\* the branch taken while awaiting_cloned_voice_description is set
AudioAwaitingClonedVoiceDescription(w, u, message, io) ==
    LET voice_name == w.user_data[u].cloned_voice_name
        stripped == Strip(message.text)
        description == IF Lower(stripped) \in SkipTokens
                       THEN ClonedPrefix \o voice_name ELSE stripped
        audio_path == w.user_data[u].voice_audio_path
        r == clone_voice(w.m, voice_name, TRUE, <<>>, description, io)
        files == IF r.ok THEN w.tempfiles \ {audio_path} ELSE w.tempfiles
    IN IF voice_name = Absent THEN Raise(w, u, "KeyError")
       ELSE IF message.text = Absent THEN Raise(w, u, "AttributeError")
       ELSE IF audio_path = Absent \/ audio_path \notin w.tempfiles
       THEN Answer(w, u, "AudioMissing")
       ELSE Out([w EXCEPT !.m = r.m,
                          !.tempfiles = files,
                          !.user_data[u].awaiting_cloned_voice_description = FALSE,
                          !.user_data[u].cloned_voice_name = Absent,
                          !.user_data[u].voice_audio_path = Absent],
                Called(u, "clone_voice", voice_name, r))

\* the branch taken while 'cloning_voice' is in user_data
AudioCloningVoice(w, u, message, io) ==
    LET voice_name == w.user_data[u].cloning_voice
        temp_path == TempPath(w)
        r == clone_voice(w.m, voice_name, TRUE, <<>>, <<>>, io)
    IN IF io = "download_fails" THEN Answer(w, u, "AudioError")
       ELSE IF message.probe = "ok" /\ Less(Num(MAX_VOICE_DURATION, 0), message.duration)
       THEN Answer([w EXCEPT !.tempfiles = @ \ {temp_path}], u, "AudioTooLong")
       ELSE Out([w EXCEPT !.m = r.m,
                          !.tempfiles = @ \ {temp_path},
                          !.user_data[u].cloning_voice = Absent],
                Called(u, "clone_voice", voice_name, r))

handle_audio(w, u, message, io) ==
    IF w.user_data[u].awaiting_voice_audio THEN AudioAwaitingVoiceAudio(w, u, message, io)
    ELSE IF w.user_data[u].awaiting_cloned_voice_name
    THEN AudioAwaitingClonedVoiceName(w, u, message)
    ELSE IF w.user_data[u].awaiting_cloned_voice_description
    THEN AudioAwaitingClonedVoiceDescription(w, u, message, io)
    ELSE IF w.user_data[u].cloning_voice # Absent THEN AudioCloningVoice(w, u, message, io)
    ELSE Answer(w, u, "NotCloning")

----------------------------------------------------------------------------
(* Qwen3TTSManager.__init__: load_config reads bot_config.json when it     *)
(* exists and falls back to DEFAULT_CONFIG.  json.load builds a new        *)
(* dictionary for every profile's settings.                                *)

RECURSIVE LoadVoices(_, _, _)
LoadVoices(content, order, acc) ==
    IF order = <<>> THEN acc
    ELSE LET name == Head(order)
             stored == content.voices[name]
             ref == NewRef(acc.heap)
             profile == [stored EXCEPT !.settings = ref]
         IN LoadVoices(content, Tail(order),
                       [config |-> SetVoice(acc.config, name, profile),
                        heap |-> Allocate(acc.heap, stored.settings)])

EmptyConfig_PointerLost(default_voice) ==
    [default_voice |-> DEFAULT_VOICE_NAME, order |-> <<>>, voices |-> <<>>]

EmptyConfig(default_voice) ==
    [default_voice |-> default_voice, order |-> <<>>, voices |-> <<>>]

load_config(file) ==
    IF file.status = "absent" THEN [config |-> DEFAULT_CONFIG, heap |-> DefaultHeap]
    ELSE LoadVoices(file.content, file.content.order,
                    [config |-> EmptyConfig(file.content.default_voice), heap |-> <<>>])

----------------------------------------------------------------------------
(* The inputs of the model. *)

Abc == <<"a","b","c">>
Xyz == <<"x","y","z">>
Hi == <<"h","i">>
Dash == <<"-">>
OnePointTwo == <<"1",".","2">>

\* the names buttons are pressed for.  Telegram hands the handler whatever
\* callback data the client sends: a button of an old message, for a profile
\* deleted since, or data no keyboard of the bot ever held.
VoiceNames == {DEFAULT_VOICE_NAME, Abc, Xyz}

\* the text messages sent
Texts == {Xyz, Hi, Dash}

\* callback data as the keyboards build them for a voice
VoiceButtons(v) ==
    {D_select_voice \o v,
     D_set_emotion \o v \o <<"_">> \o Happy,
     D_clone_this \o v,
     D_edit_desc \o v,
     D_delete_voice \o v}

Buttons == UNION {VoiceButtons(v) : v \in VoiceNames} \cup {D_create_new_voice}

\* the audio messages sent: a sample of five seconds
AudioMessages == {[text |-> Absent, probe |-> "ok", duration |-> Num(5, 0)]}

\* the storage faults a handler can meet
Faults == {"write_fails", "copy_fails", "rmtree_fails", "download_fails"}

\* the inputs of the two users' race for one name
RaceTexts == {Abc, Xyz, Hi, Dash}
RaceButtons == {D_create_new_voice, D_select_voice \o Abc}

\* A configuration file left by an earlier run: the profile abc was created
\* and given the emotion happy.
EarlierRun ==
    [status |-> "saved",
     content |->
        [default_voice |-> DEFAULT_VOICE_NAME,
         order |-> <<DEFAULT_VOICE_NAME, Abc>>,
         voices |-> [n \in {DEFAULT_VOICE_NAME, Abc} |->
            IF n = DEFAULT_VOICE_NAME
            THEN [DEFAULT_CONFIG.voices[DEFAULT_VOICE_NAME] EXCEPT !.settings = DefaultSettings]
            ELSE [model |-> MODEL_NAME,
                  settings |-> [DefaultSettings EXCEPT !.emotion = Happy],
                  cloned |-> FALSE,
                  cloned_from |-> Absent,
                  reference_text |-> Absent,
                  description |-> Hi]]]]

StoredFiles == {NoFile, EarlierRun}

----------------------------------------------------------------------------
(* The state machine. *)

Nothing ==
    [user |-> "nobody", call |-> "none", name |-> NoCall, arg |-> NoCall,
     ok |-> TRUE, msg |-> "none", raised |-> FALSE]

\* a handler's record with the update it handled and the storage fault it met
Entry(d, input, io) ==
    [call |-> d.call, name |-> d.name, arg |-> d.arg, ok |-> d.ok,
     msg |-> d.msg, raised |-> d.raised, input |-> input, io |-> io]

\* the application before polling starts: no update fetched, no handler running
IdleDispatch == [queue |-> <<>>, running |-> {}, fetched |-> 0]

Init ==
    /\ disk \in StoredFiles
    /\ config = load_config(disk).config
    /\ heap = load_config(disk).heap
    /\ library = {}
    /\ tempfiles = {}
    /\ user_data = [u \in Users |-> IdleSession]
    /\ now = 0
    /\ last = [who |-> "nobody",
               did |-> [u \in Users |-> Entry(Nothing, <<>>, "ok")],
               kind |-> "none",
               session |-> IdleSession,
               before |-> Snapshot(load_config(disk))]
    /\ events = 0
    /\ faults = 0
    /\ dispatch = IdleDispatch

\* the state a handler leaves, with the kind of update it handled and the
\* session it found
Apply(out, kind, input, io) ==
    /\ config' = out.w.m.config
    /\ heap' = out.w.m.heap
    /\ disk' = out.w.m.disk
    /\ library' = out.w.m.library
    /\ tempfiles' = out.w.tempfiles
    /\ user_data' = out.w.user_data
    /\ last' = [who |-> out.last.user,
                did |-> [last.did EXCEPT ![out.last.user] = Entry(out.last, input, io)],
                kind |-> kind,
                session |-> user_data[out.last.user],
                before |-> Snapshot(Manager)]
    /\ UNCHANGED now

\* one handler run to its end, without a storage fault or with the fault io,
\* which counts when it changes what the handler does
Serve(out, kind, input, io, clean) ==
    /\ events' = events + 1
    /\ IF io = "ok" THEN UNCHANGED faults
       ELSE /\ faults < MaxFaults
            /\ out # clean
            /\ faults' = faults + 1
    /\ Apply(out, kind, input, io)

\* one update fetched and handled in one step
Handled(out, kind, input, io, clean) ==
    /\ Serve(out, kind, input, io, clean)
    /\ UNCHANGED dispatch

TextMessage(u, text, io) ==
    Handled(handle_text_input(World, u, text, io), "text", text, io,
            handle_text_input(World, u, text, "ok"))

ButtonPress(u, data, io) ==
    Handled(button_callback(World, u, data, io), "button", data, io,
            button_callback(World, u, data, "ok"))

AudioMessage(u, message, io) ==
    Handled(handle_audio(World, u, message, io), "audio", message, io,
            handle_audio(World, u, message, "ok"))

CreateVoiceMenu(u) ==
    Handled(create_voice_handler(World, u), "menu", <<"menu">>, "ok", Nothing)

CloneVoiceMenu(u) ==
    Handled(clone_voice_handler(World, u), "menu", <<"menu">>, "ok", Nothing)

\* One user at work: every handler, every storage fault.
Next ==
    \/ \E text \in Texts, io \in Faults \cup {"ok"} :
          events < MaxEvents /\ TextMessage("u1", text, io)
    \/ \E data \in Buttons, io \in Faults \cup {"ok"} :
          events < MaxEvents /\ ButtonPress("u1", data, io)
    \/ \E message \in AudioMessages, io \in Faults \cup {"ok"} :
          events < MaxEvents /\ AudioMessage("u1", message, io)
    \/ events < MaxEvents /\ CreateVoiceMenu("u1")
    \/ events < MaxEvents /\ CloneVoiceMenu("u1")

Spec == Init /\ [][Next]_vars

\* Two users in the creation flow at once.
NextRace ==
    \/ \E u \in Users, text \in RaceTexts :
          events < MaxRaceEvents /\ TextMessage(u, text, "ok")
    \/ \E u \in Users, data \in RaceButtons :
          events < MaxRaceEvents /\ ButtonPress(u, data, "ok")
    \/ \E u \in Users : events < MaxRaceEvents /\ CreateVoiceMenu(u)

SpecRace == Init /\ [][NextRace]_vars

----------------------------------------------------------------------------
(* Names used by the properties. *)

\* what the last update handled did
Acted == IF last.who \in Users THEN last.did[last.who] ELSE Entry(Nothing, <<>>, "ok")

RegistryNames == DOMAIN config.voices
Profile(n) == config.voices[n]
SettingsNow(n) == heap[config.voices[n].settings]

\* the registry by value: profiles with their settings, order, default pointer
Registry == Snapshot(Manager)

\* the registry as the last update handled found it
Before == last.before
NamesBefore == DOMAIN Before.voices

\* every profile but `name` is as the last update found it
OthersUnchanged(name) ==
    \A n \in NamesBefore \ {name} :
        /\ n \in RegistryNames
        /\ Registry.voices[n] = Before.voices[n]

----------------------------------------------------------------------------
(* C1: after any sequence of create, clone, delete, setDefault,            *)
(* updateSettings and description-edit operations, successful or failed,   *)
(* config['default_voice'] names a profile present in the registry.        *)
C1_DefaultPointerPresent == config.default_voice \in RegistryNames

\* the profile the pointer designated was deleted, and the pointer names a
\* profile that is present
C1_Witness ==
    /\ Acted.call = "delete_voice"
    /\ Acted.ok
    /\ Acted.name = Before.default_voice
    /\ Acted.name \notin RegistryNames
    /\ config.default_voice \in RegistryNames

C3_DefaultProfilePresent == DEFAULT_VOICE_NAME \in RegistryNames

\* `default` was overwritten by a clone and is still there
C3_Witness ==
    /\ Acted.call = "clone_voice"
    /\ Acted.name = DEFAULT_VOICE_NAME
    /\ Acted.ok
    /\ Profile(DEFAULT_VOICE_NAME).cloned

(* C4: create with a name already present fails with AlreadyExists and     *)
(* leaves every profile and the default pointer unchanged; with a name not *)
(* present it adds exactly one profile under that name and changes no      *)
(* other profile.                                                          *)
C4_Create ==
    Acted.call = "create_voice" =>
        IF Acted.name \in NamesBefore
        THEN Acted.msg = "AlreadyExists" /\ Registry = Before
        ELSE /\ RegistryNames = NamesBefore \cup {Acted.name}
             /\ OthersUnchanged(Acted.name)

\* a create was refused because the name had been registered meanwhile
C4_Witness ==
    /\ Acted.call = "create_voice"
    /\ Acted.msg = "AlreadyExists"
    /\ Acted.name \in NamesBefore

\* the description a profile gets from the text sent at the description step
SubmittedDescription(text, name) ==
    IF Lower(Strip(text)) \in SkipTokens \/ Strip(text) = <<>>
    THEN CreatedPrefix \o name ELSE Strip(text)

(* C5: when two users both pass the name step of the creation flow with    *)
(* the same new name and then both submit their description, exactly one   *)
(* create succeeds, the other receives AlreadyExists, and the registry     *)
(* holds one profile of that name with the winner's description.           *)
C5_OneCreateWins ==
    \A u \in Users : \A v \in Users \ {u} :
        (/\ last.did[u].call = "create_voice"
         /\ last.did[v].call = "create_voice"
         /\ last.did[u].name = last.did[v].name)
        => /\ last.did[u].ok \/ last.did[v].ok
           /\ last.did[u].ok
                 => /\ ~last.did[v].ok
                    /\ last.did[v].msg = "AlreadyExists"
                    /\ last.did[u].name \in RegistryNames
                    /\ Cardinality({i \in 1..Len(config.order) :
                                       config.order[i] = last.did[u].name}) = 1
                    /\ Profile(last.did[u].name).description =
                          SubmittedDescription(last.did[u].input, last.did[u].name)

\* both users submitted a description for the same name, with different texts
C5_Witness ==
    /\ last.did["u1"].call = "create_voice"
    /\ last.did["u2"].call = "create_voice"
    /\ last.did["u1"].name = last.did["u2"].name
    /\ last.did["u1"].input # last.did["u2"].input
    /\ last.did["u2"].ok
    /\ last.did["u1"].msg = "AlreadyExists"

\* the operations that change the registry
MutatingCalls ==
    {"create_voice", "clone_voice", "delete_voice", "update_voice_settings",
     "set_default_voice", "set_description"}

(* C6, as claimed: every mutating registry operation is atomic with        *)
(* respect to persistence: when writing the durable store fails, the       *)
(* in-memory registry is as it was before the operation and the caller     *)
(* sees a failure.                                                         *)
C6_AtomicWithPersistence ==
    (Acted.call \in MutatingCalls /\ Acted.io = "write_fails")
        => (Registry = Before /\ ~Acted.ok)

C8_SettingsNotShared ==
    Acted.call = "update_voice_settings"
        => \A n \in NamesBefore \ {Acted.name} :
              /\ n \in RegistryNames
              /\ SettingsNow(n) = Before.voices[n].settings

\* the settings of a profile made in this run were changed and now differ
\* from those of `default`, which it was seeded from
C8_Witness ==
    /\ Acted.call = "update_voice_settings"
    /\ Acted.ok
    /\ Acted.name = Xyz
    /\ SettingsNow(Xyz) # Before.voices[Xyz].settings
    /\ Before.voices[Xyz].settings = Before.voices[DEFAULT_VOICE_NAME].settings
    /\ SettingsNow(DEFAULT_VOICE_NAME) = Before.voices[DEFAULT_VOICE_NAME].settings

(* C9: clone with a name that is present and is not `default` fails with   *)
(* AlreadyExists and leaves the registry unchanged; with an absent name,   *)
(* or with `default`, it succeeds when no storage step fails, and the      *)
(* profile then has cloned = true, the path of the stored sample and the   *)
(* settings of the profile named `default`.                                *)
C9_Clone ==
    Acted.call = "clone_voice" =>
        IF Acted.name \in NamesBefore /\ Acted.name # DEFAULT_VOICE_NAME
        THEN Acted.msg = "AlreadyExists" /\ Registry = Before
        ELSE Acted.io = "ok" =>
                /\ Acted.ok
                /\ Acted.name \in RegistryNames
                /\ Profile(Acted.name).cloned
                /\ Profile(Acted.name).cloned_from = ClonedAudioPath(Acted.name)
                /\ Acted.name \in library
                /\ SettingsNow(Acted.name) = Before.voices[DEFAULT_VOICE_NAME].settings

\* a clone under a name that was absent succeeded
C9_Witness ==
    /\ Acted.call = "clone_voice"
    /\ Acted.ok
    /\ Acted.name \notin NamesBefore
    /\ Profile(Acted.name).cloned

(* C10: delete of a name not in the registry returns NotFound and leaves   *)
(* the registry unchanged; a successful delete removes exactly the profile *)
(* of that name and leaves every other profile's attributes unchanged.     *)
C10_Delete ==
    Acted.call = "delete_voice" =>
        /\ Acted.name \notin NamesBefore
              => (Acted.msg = "NotFound" /\ Registry = Before)
        /\ Acted.ok
              => /\ RegistryNames = NamesBefore \ {Acted.name}
                 /\ OthersUnchanged(Acted.name)

\* a profile was deleted while another profile besides `default` stayed
C10_Witness ==
    /\ Acted.call = "delete_voice"
    /\ Acted.ok
    /\ Acted.name \in NamesBefore
    /\ \E n \in RegistryNames : n # DEFAULT_VOICE_NAME

----------------------------------------------------------------------------
(* One user adjusting the settings of the profile abc, without storage
   faults: the parameter buttons, the selection buttons and the values typed. *)

MaxSettingsEvents == 5

\* self.supported_languages
supported_languages ==
    {Ru, <<"e","n">>, <<"z","h">>, <<"j","a">>, <<"k","o">>, <<"d","e">>,
     <<"f","r">>, <<"e","s">>, <<"i","t">>, <<"p","t">>}

\* the values typed: 1.2, 0.3, 3.5, nan, a word, an emotion
SettingsTexts ==
    {OnePointTwo, <<"0",".","3">>, <<"3",".","5">>, <<"n","a","n">>, Hi, Happy}

\* callback data of the settings keyboards of abc, and a selection no
\* keyboard of the bot offers
SettingsButtons ==
    {D_adjust \o p \o <<"_">> \o Abc : p \in {Speed, Volume, Emotion, Language}}
    \cup {D_set_emotion \o Abc \o <<"_">> \o e : e \in {Happy, <<"b","o","g","u","s">>}}
    \cup {D_set_lang \o Abc \o <<"_">> \o <<"e","n">>}
    \cup {D_select_voice \o Abc}

NextSettings ==
    \/ \E text \in SettingsTexts :
          events < MaxSettingsEvents /\ TextMessage("u1", text, "ok")
    \/ \E data \in SettingsButtons :
          events < MaxSettingsEvents /\ ButtonPress("u1", data, "ok")

SpecSettings == Init /\ [][NextSettings]_vars

\* the settings of a profile in a snapshot of the registry
SettingsIn(snapshot, n) == snapshot.voices[n].settings

\* C11: update_voice_settings merges: on a registered name only the keys of
\* the argument change on that profile, every other key of it, every other
\* profile, the order and the default pointer stay; on a missing name the
\* answer is NotFound and the registry stays as it was.
C11_UpdateMerges ==
    Acted.call = "update_voice_settings" =>
        IF Acted.name \in NamesBefore
        THEN /\ Acted.ok /\ Acted.msg = "updated"
             /\ Registry.order = Before.order
             /\ Registry.default_voice = Before.default_voice
             /\ OthersUnchanged(Acted.name)
             /\ \A f \in DOMAIN Before.voices[Acted.name] \ {"settings"} :
                   Registry.voices[Acted.name][f] = Before.voices[Acted.name][f]
             /\ DOMAIN SettingsIn(Registry, Acted.name)
                   = DOMAIN SettingsIn(Before, Acted.name) \cup DOMAIN Acted.arg
             /\ \A k \in DOMAIN SettingsIn(Registry, Acted.name) :
                   SettingsIn(Registry, Acted.name)[k]
                      = IF k \in DOMAIN Acted.arg THEN Acted.arg[k]
                        ELSE SettingsIn(Before, Acted.name)[k]
        ELSE /\ ~Acted.ok /\ Acted.msg = "NotFound"
             /\ Registry = Before

\* a typed speed changed the speed of abc and nothing else of it
C11_Witness ==
    /\ Acted.call = "update_voice_settings" /\ Acted.ok
    /\ Acted.name = Abc
    /\ DOMAIN Acted.arg = {"speed"}
    /\ SettingsIn(Registry, Abc).speed # SettingsIn(Before, Abc).speed
    /\ SettingsIn(Registry, Abc).emotion = Happy

----------------------------------------------------------------------------
\* C12: set_default_voice is idempotent: on a registered name a second call
\* leaves the registry and the stored file as the first call left them, with
\* the pointer on that name; on a missing name the answer is NotFound and
\* the pointer (with the rest of the registry) stays.
C12_SetDefaultIdempotent ==
    /\ \A n \in VoiceNames :
          LET once == set_default_voice(Manager, n, "ok")
              twice == set_default_voice(once.m, n, "ok")
          IN IF n \in RegistryNames
             THEN /\ once.ok /\ twice.ok
                  /\ Snapshot(once.m) = [Registry EXCEPT !.default_voice = n]
                  /\ Snapshot(twice.m) = Snapshot(once.m)
                  /\ twice.m.disk = once.m.disk
             ELSE /\ ~once.ok /\ once.msg = "NotFound"
                  /\ once.m = Manager
    /\ (Acted.call = "set_default_voice" /\ Acted.io = "ok") =>
          IF Acted.name \in NamesBefore
          THEN Acted.ok /\ Registry = [Before EXCEPT !.default_voice = Acted.name]
          ELSE ~Acted.ok /\ Acted.msg = "NotFound" /\ Registry = Before

\* abc, already the default, was selected again
C12_Witness ==
    /\ Acted.call = "set_default_voice" /\ Acted.ok
    /\ Acted.name = Abc
    /\ Before.default_voice = Abc
    /\ Registry = Before

----------------------------------------------------------------------------
(* One user in the creation flow, the description edit of abc and the menu
   clone flow, without storage faults; the texts sent include one of 201
   characters. *)

MaxDescribeEvents == 5

LongText == [i \in 1..(MAX_DESCRIPTION_LENGTH + 1) |-> "a"]

DescribeTexts == {Abc, Xyz, Hi, Dash, LongText}
DescribeButtons == {D_create_new_voice, D_edit_desc \o Abc}

NextDescribe ==
    \/ \E text \in DescribeTexts :
          events < MaxDescribeEvents /\ TextMessage("u1", text, "ok")
    \/ \E data \in DescribeButtons :
          events < MaxDescribeEvents /\ ButtonPress("u1", data, "ok")
    \/ \E message \in AudioMessages :
          events < MaxDescribeEvents /\ AudioMessage("u1", message, "ok")
    \/ events < MaxDescribeEvents /\ CreateVoiceMenu("u1")
    \/ events < MaxDescribeEvents /\ CloneVoiceMenu("u1")

SpecDescribe == Init /\ [][NextDescribe]_vars

\* the session the last update found, and the one it left
SessionBefore == last.session
SessionNow == user_data[last.who]

\* the last update was a text that handle_text_input took to the name step
\* of the creation flow
AtNameStep ==
    /\ last.kind = "text"
    /\ SessionBefore.adjusting_param = Absent
    /\ SessionBefore.editing_description = Absent
    /\ SessionBefore.awaiting_voice_name

\* ... to the description step of the creation flow
AtDescriptionStep ==
    /\ last.kind = "text"
    /\ SessionBefore.adjusting_param = Absent
    /\ SessionBefore.editing_description = Absent
    /\ ~SessionBefore.awaiting_voice_name
    /\ SessionBefore.awaiting_voice_description

\* C13: the creation flow end to end: at the name step a name that matches
\* the pattern and is not registered moves the session to the description
\* step with that name; the text sent at the description step creates the
\* profile, described by that text or, for a skip token, by the generated
\* default; afterwards get_voice_list holds the name.
C13_CreationFlow ==
    /\ (/\ AtNameStep
        /\ NameMatches(Strip(Acted.input))
        /\ Strip(Acted.input) \notin NamesBefore)
       => /\ SessionNow = [SessionBefore EXCEPT !.new_voice_name = Strip(Acted.input),
                                                !.awaiting_voice_name = FALSE,
                                                !.awaiting_voice_description = TRUE]
          /\ Registry = Before
    /\ AtDescriptionStep
       => LET name == SessionBefore.new_voice_name
          IN /\ Acted.call = "create_voice" /\ Acted.name = name /\ Acted.ok
             /\ name \notin NamesBefore
             /\ name \in Range(get_voice_list(Manager))
             /\ Profile(name).description = SubmittedDescription(Acted.input, name)
             /\ OthersUnchanged(name)

\* xyz went through both steps and was created with the generated description
C13_Witness ==
    /\ AtDescriptionStep
    /\ SessionBefore.new_voice_name = Xyz
    /\ Acted.input = Dash
    /\ Xyz \in Range(get_voice_list(Manager))
    /\ Profile(Xyz).description = CreatedPrefix \o Xyz

----------------------------------------------------------------------------
\* the last update arrived while the session awaited the name of a clone and
\* no other step: an audio message for handle_audio or a text for
\* handle_text_input
AtCloneNameStep ==
    /\ SessionBefore.awaiting_cloned_voice_name
    /\ ~SessionBefore.awaiting_voice_audio
    /\ \/ last.kind = "audio"
       \/ /\ last.kind = "text"
          /\ SessionBefore.adjusting_param = Absent
          /\ SessionBefore.editing_description = Absent
          /\ ~SessionBefore.awaiting_voice_name
          /\ ~SessionBefore.awaiting_voice_description

\* C14: at the name step of the creation flow a name that does not match
\* ^[A-Za-z0-9_]{3,30}$ or is registered already is answered with a prompt
\* only: no manager call, the session as it was (same flags, same payload),
\* the registry as it was.  The name step of the clone flow likewise never
\* leaves the session or the registry changed on a message that names no
\* valid new profile.
C14_NameStepRejects ==
    /\ (AtNameStep /\ ~NameMatches(Strip(Acted.input)))
       => /\ Acted.call = "none" /\ Acted.msg = "InvalidName"
          /\ SessionNow = SessionBefore
          /\ Registry = Before
    /\ (AtNameStep /\ Strip(Acted.input) \in NamesBefore)
       => /\ Acted.call = "none" /\ Acted.msg = "AlreadyExists"
          /\ SessionNow = SessionBefore
          /\ Registry = Before
    /\ AtCloneNameStep
       => /\ Acted.call = "none"
          /\ SessionNow = SessionBefore
          /\ Registry = Before

\* the registered name abc was refused at the name step
C14_Witness ==
    /\ AtNameStep
    /\ Acted.input = Abc
    /\ Abc \in NamesBefore
    /\ Acted.msg = "AlreadyExists"
    /\ SessionNow.awaiting_voice_name

----------------------------------------------------------------------------
\* C15: a description of more than 200 characters is rejected at every
\* description step (new voice, clone, edit): the session stays in the step
\* and no profile is created or changed; so no profile of the registry ever
\* has a description longer than 200 characters.
C15_DescriptionBounded ==
    /\ \A n \in RegistryNames : Len(Profile(n).description) <= MAX_DESCRIPTION_LENGTH
    /\ ((AtDescriptionStep \/ (last.kind = "text"
                               /\ SessionBefore.adjusting_param = Absent
                               /\ SessionBefore.editing_description # Absent))
        /\ Len(Strip(Acted.input)) > MAX_DESCRIPTION_LENGTH)
       => /\ SessionNow = SessionBefore
          /\ Registry = Before

----------------------------------------------------------------------------
\* the bounds of the numeric parameters: speed and pitch in [0.5, 2.0],
\* volume in [0.1, 2.0]
InBound(param_type, value) ==
    /\ value.kind = "num"
    /\ ~Less(value, IF param_type = Volume THEN Num(1, 1) ELSE Num(5, 1))
    /\ ~Less(Num(2, 0), value)

\* the last update was a text that handle_text_input took as the value of a
\* numeric parameter
AtParamStep ==
    /\ last.kind = "text"
    /\ SessionBefore.adjusting_param # Absent
    /\ SessionBefore.adjusting_param[1] \in {Speed, Pitch, Volume}

\* C16: while the session awaits the value of speed, pitch or volume, a text
\* that does not parse as a number or whose value is not within the bound of
\* the parameter never leads to a call of update_voice_settings, and the
\* session keeps awaiting the value of the same parameter of the same voice.
C16_OutOfBoundRejected ==
    (/\ AtParamStep
     /\ \/ ~ParseFloat(Acted.input).ok
        \/ ~InBound(SessionBefore.adjusting_param[1], ParseFloat(Acted.input).value))
    => /\ Acted.call # "update_voice_settings"
       /\ SessionNow = SessionBefore
       /\ Registry = Before

----------------------------------------------------------------------------
\* the key of settings a numeric parameter stands for
NumericKey(param_type) ==
    CASE param_type = Speed -> "speed"
      [] param_type = Pitch -> "pitch"
      [] param_type = Volume -> "volume"

\* C17: while the session awaits the value of a numeric parameter of a
\* registered voice, a text whose value v is within the bound sets that key
\* of that voice's settings to v and changes nothing else of the registry
\* (no other key, no other voice), and the session no longer awaits the
\* value.
C17_InBoundApplied ==
    (/\ AtParamStep
     /\ ParseFloat(Acted.input).ok
     /\ InBound(SessionBefore.adjusting_param[1], ParseFloat(Acted.input).value)
     /\ SessionBefore.adjusting_param[2] \in NamesBefore)
    => LET param == SessionBefore.adjusting_param[1]
           voice == SessionBefore.adjusting_param[2]
           v == ParseFloat(Acted.input).value
       IN /\ Acted.call = "update_voice_settings" /\ Acted.name = voice /\ Acted.ok
          /\ Registry = [Before EXCEPT !.voices[voice].settings[NumericKey(param)] = v]
          /\ SessionNow = [SessionBefore EXCEPT !.adjusting_param = Absent]

\* the volume of abc was set to 0.3, a value out of bound for speed
C17_Witness ==
    /\ AtParamStep
    /\ SessionBefore.adjusting_param = <<Volume, Abc>>
    /\ Acted.input = <<"0",".","3">>
    /\ Abc \in NamesBefore
    /\ SettingsIn(Before, Abc).volume = Num(1, 0)
    /\ SettingsIn(Registry, Abc).volume = Num(3, 1)
    /\ SettingsIn(Registry, Abc).speed = Num(1, 0)
    /\ SessionNow.adjusting_param = Absent

----------------------------------------------------------------------------
\* C18: the numeric ranges are an invariant of the registry: from a registry
\* in range, after any sequence of updates every profile has speed and pitch
\* within [0.5, 2.0] and volume within [0.1, 2.0], also when the text typed
\* parses as a float that is no ordinary number, such as nan.
C18_SettingsInRange ==
    \A n \in RegistryNames :
        /\ InBound(Speed, SettingsNow(n).speed)
        /\ InBound(Pitch, SettingsNow(n).pitch)
        /\ InBound(Volume, SettingsNow(n).volume)

----------------------------------------------------------------------------
\* C19: a selection of an emotion outside {neutral, happy, sad, angry,
\* excited} or of a language outside supported_languages is rejected: the
\* update that carries it changes neither the registry nor the session; so
\* in every reachable state every profile's emotion and language are members
\* of those sets.
C19_EnumeratedValues ==
    /\ (/\ Acted.call = "update_voice_settings"
        /\ \/ "emotion" \in DOMAIN Acted.arg /\ Acted.arg["emotion"] \notin valid_emotions
           \/ "language" \in DOMAIN Acted.arg
                 /\ Acted.arg["language"] \notin supported_languages)
       => Registry = Before /\ SessionNow = SessionBefore
    /\ \A n \in RegistryNames :
          /\ SettingsNow(n).emotion \in valid_emotions
          /\ SettingsNow(n).language \in supported_languages

----------------------------------------------------------------------------
\* the manager calls that end a dialog: create, settings update, description
\* update, clone
TerminalCalls == {"create_voice", "update_voice_settings", "set_description", "clone_voice"}

\* C20: every terminal transition (create after the description step, numeric
\* update, emotion selection, language selection, description update, clone)
\* mutates the registry once, on the one profile it is about, and leaves the
\* session idle: no awaiting flag is set and none of adjusting_param,
\* editing_description, new_voice_name, cloned_voice_name, voice_audio_path
\* remains.
C20_TerminalLeavesIdle ==
    (Acted.call \in TerminalCalls /\ Acted.ok)
    => /\ OthersUnchanged(Acted.name)
       /\ Registry.default_voice = Before.default_voice
       /\ ~SessionNow.awaiting_voice_name
       /\ ~SessionNow.awaiting_voice_description
       /\ ~SessionNow.awaiting_voice_audio
       /\ ~SessionNow.awaiting_cloned_voice_name
       /\ ~SessionNow.awaiting_cloned_voice_description
       /\ SessionNow.adjusting_param = Absent
       /\ SessionNow.editing_description = Absent
       /\ SessionNow.new_voice_name = Absent
       /\ SessionNow.cloned_voice_name = Absent
       /\ SessionNow.voice_audio_path = Absent

----------------------------------------------------------------------------
(* One user in the clone flows, without storage faults: the menu entry, the
   clone button of a profile, samples of 5, 45 and 0.5 seconds and one whose
   duration cannot be measured, texts, and the way back to the main menu. *)

MaxAudioEvents == 4

Samples ==
    {[text |-> Absent, probe |-> "ok", duration |-> Num(5, 0)],
     [text |-> Absent, probe |-> "ok", duration |-> Num(45, 0)],
     [text |-> Absent, probe |-> "ok", duration |-> Num(5, 1)],
     [text |-> Absent, probe |-> "fails", duration |-> Num(5, 0)]}

AudioTexts == {Xyz, Dash}
AudioButtons == {D_clone_this \o Abc, D_clone_this \o Xyz, D_back_to_main}

NextAudio ==
    \/ \E text \in AudioTexts :
          events < MaxAudioEvents /\ TextMessage("u1", text, "ok")
    \/ \E data \in AudioButtons :
          events < MaxAudioEvents /\ ButtonPress("u1", data, "ok")
    \/ \E message \in Samples :
          events < MaxAudioEvents /\ AudioMessage("u1", message, "ok")
    \/ events < MaxAudioEvents /\ CloneVoiceMenu("u1")

SpecAudio == Init /\ [][NextAudio]_vars

\* C21: back_to_main, from any state of the session, leaves the session
\* idle: the pending text, the new voice name, the parameter being adjusted,
\* the description-edit target and the clone target are discarded, and a
\* buffered audio sample is released.
C21_BackToMainClears ==
    (last.kind = "button" /\ Acted.input = D_back_to_main)
    => /\ SessionNow = IdleSession
       /\ SessionBefore.voice_audio_path \notin tempfiles

----------------------------------------------------------------------------
\* the steps a session is in
ActiveSteps(session) ==
    {step \in {"AwaitingSynthesisVoiceChoice", "AwaitingNewVoiceName",
               "AwaitingNewVoiceDescription", "AwaitingCloneAudio",
               "AwaitingCloneVoiceName", "AwaitingCloneDescription",
               "AwaitingParamValue", "AwaitingDescriptionEdit"} :
        CASE step = "AwaitingSynthesisVoiceChoice" -> session.pending_text # Absent
          [] step = "AwaitingNewVoiceName" -> session.awaiting_voice_name
          [] step = "AwaitingNewVoiceDescription" -> session.awaiting_voice_description
          [] step = "AwaitingCloneAudio" ->
                session.awaiting_voice_audio \/ session.cloning_voice # Absent
          [] step = "AwaitingCloneVoiceName" -> session.awaiting_cloned_voice_name
          [] step = "AwaitingCloneDescription" -> session.awaiting_cloned_voice_description
          [] step = "AwaitingParamValue" -> session.adjusting_param # Absent
          [] step = "AwaitingDescriptionEdit" -> session.editing_description # Absent}

\* C22: the steps of a session are mutually exclusive: in every reachable
\* state at most one step of a user's session is active, in whatever order
\* the flows were started.
C22_StepsExclusive ==
    \A u \in Users : Cardinality(ActiveSteps(user_data[u])) <= 1

----------------------------------------------------------------------------
\* C23: the synthesis flow: from an idle session a text message of 2 to
\* max_text_length characters moves the session to the voice choice holding
\* that text, and a voice choice made while a text is held dispatches the
\* synthesis of that text with the chosen voice and does nothing else.
C23_SynthesisFlow ==
    /\ (/\ last.kind = "text"
        /\ SessionBefore = IdleSession
        /\ Len(Strip(Acted.input)) >= MIN_TEXT_LENGTH
        /\ Len(Strip(Acted.input)) <= MAX_TEXT_LENGTH)
       => SessionNow = [IdleSession EXCEPT !.pending_text = Strip(Acted.input)]
    /\ (/\ last.kind = "button"
        /\ StartsWith(Acted.input, D_select_voice)
        /\ SessionBefore.pending_text # Absent)
       => Acted.call = "synthesize" /\ Registry = Before

----------------------------------------------------------------------------
(* The synthesis functions by themselves: synthesize_text_handler applied
   to a text message and synthesize_and_send to a voice choice, with what
   the backend and the upload did. *)

MaxSynthesisEvents == 3

\* the output file of synthesize: os.path.join(TEMP_DIR, f"tts_{timestamp}.wav")
OutputPath(w) == <<"tts", w.now>>

\* synthesize_and_send(update, context, voice_name); outcome tells what
\* became of the synthesis: "sent", "too_big" (over 50 MB, not sent),
\* "no_audio" (synthesize returned None or the file is missing),
\* "send_fails" (reply_voice raised)
synthesize_and_send(w, u, voice_name, outcome) ==
    LET text == w.user_data[u].pending_text
        done == [w EXCEPT !.user_data[u].pending_text = Absent]
    IN IF text = Absent THEN Answer(w, u, "none")
       ELSE IF outcome = "no_audio"
       THEN Out(w, Did(u, "synthesize", voice_name, FALSE, "GenerationError", FALSE))
       ELSE IF outcome = "send_fails"
       THEN Out([w EXCEPT !.tempfiles = @ \cup {OutputPath(w)}],
                Did(u, "synthesize", voice_name, FALSE, "SendError", FALSE))
       ELSE IF outcome = "too_big"
       THEN Out(done, Did(u, "synthesize", voice_name, FALSE, "TooBig", FALSE))
       ELSE Out(done, Did(u, "synthesize", voice_name, TRUE, "sent", FALSE))

Outcomes == {"sent", "too_big", "no_audio", "send_fails"}

\* texts of 3, 2, 1 and 1001 characters
SynthesisTexts == {Xyz, Hi, Dash, [i \in 1..(MAX_TEXT_LENGTH + 1) |-> "a"]}

SynthesisText(u, text) ==
    Handled(synthesize_text_handler(World, u, text), "synthesis_text", text, "ok", Nothing)

VoiceChoice(u, voice_name, outcome) ==
    Handled(synthesize_and_send(World, u, voice_name, outcome), "voice_choice",
            voice_name, "ok", Nothing)

NextSynthesis ==
    \/ \E text \in SynthesisTexts :
          events < MaxSynthesisEvents /\ SynthesisText("u1", text)
    \/ \E voice_name \in {DEFAULT_VOICE_NAME, Abc}, outcome \in Outcomes :
          events < MaxSynthesisEvents /\ VoiceChoice("u1", voice_name, outcome)

SpecSynthesis == Init /\ [][NextSynthesis]_vars

\* C24: a synthesis text of fewer than 2 or more than max_text_length
\* characters is refused with a prompt and causes no transition: the session
\* and a pending text stored before are as they were.
C24_TextLengthRejected ==
    (/\ last.kind = "synthesis_text"
     /\ \/ Len(Strip(Acted.input)) < MIN_TEXT_LENGTH
        \/ Len(Strip(Acted.input)) > MAX_TEXT_LENGTH)
    => /\ Acted.msg = IF Len(Strip(Acted.input)) < MIN_TEXT_LENGTH
                      THEN "TextTooShort" ELSE "TextTooLong"
       /\ SessionNow = SessionBefore
       /\ Registry = Before

\* a text of one character was refused while xyz was pending
C24_Witness ==
    /\ last.kind = "synthesis_text"
    /\ Acted.input = Dash
    /\ Acted.msg = "TextTooShort"
    /\ SessionBefore.pending_text = Xyz
    /\ SessionNow.pending_text = Xyz

\* C25: a dispatched synthesis that fails (the backend returns no audio, the
\* output is missing, or sending fails) is terminal: pending_text is cleared
\* and the session is idle again.
C25_FailureClearsPending ==
    (/\ last.kind = "voice_choice"
     /\ Acted.call = "synthesize"
     /\ Acted.msg \in {"GenerationError", "SendError"})
    => SessionNow = IdleSession

----------------------------------------------------------------------------
\* the last update was an audio message that handle_audio took as the sample
\* of a clone: of the menu flow, or of the clone button of a profile
AtAudioStep ==
    /\ last.kind = "audio"
    /\ \/ SessionBefore.awaiting_voice_audio
       \/ /\ ~SessionBefore.awaiting_cloned_voice_name
          /\ ~SessionBefore.awaiting_cloned_voice_description
          /\ SessionBefore.cloning_voice # Absent

\* C26: a sample whose measured duration is above max_voice_duration or
\* below 1.0 s is refused before any registry mutation, its temporary file
\* is released, and the session stays in the step awaiting the audio, with
\* no audio reference stored.
C26_BadDurationRejected ==
    (/\ AtAudioStep
     /\ Acted.input.probe = "ok"
     /\ \/ Less(Num(MAX_VOICE_DURATION, 0), Acted.input.duration)
        \/ Less(Acted.input.duration, Num(MIN_VOICE_DURATION, 0)))
    => /\ Acted.call = "none"
       /\ Registry = Before
       /\ TempPath(World) \notin tempfiles
       /\ SessionNow = SessionBefore

----------------------------------------------------------------------------
\* C27: when the duration of a sample cannot be measured, the sample is
\* accepted unchecked: the session advances to the name step of the clone
\* flow holding a reference to a sample that still exists, and no error is
\* answered; and whenever a session in the name or description step of the
\* clone flow holds an audio reference, the sample it names has not been
\* deleted.
C27_ProbeFailureAccepted ==
    /\ (/\ last.kind = "audio"
        /\ SessionBefore.awaiting_voice_audio
        /\ Acted.input.probe # "ok")
       => /\ Acted.msg = "AskName"
          /\ SessionNow.awaiting_cloned_voice_name
          /\ SessionNow.voice_audio_path \in tempfiles
    /\ \A u \in Users :
          (/\ user_data[u].awaiting_cloned_voice_name
                 \/ user_data[u].awaiting_cloned_voice_description
           /\ user_data[u].voice_audio_path # Absent)
          => user_data[u].voice_audio_path \in tempfiles

----------------------------------------------------------------------------
\* a session in nothing but the name step of the clone flow, holding a sample
OnlyCloneNameStep(session) ==
    session = [IdleSession EXCEPT !.awaiting_cloned_voice_name = TRUE,
                                  !.voice_audio_path = session.voice_audio_path]

\* a session in nothing but the description step of the clone flow
OnlyCloneDescriptionStep(session) ==
    session = [IdleSession EXCEPT !.awaiting_cloned_voice_description = TRUE,
                                  !.cloned_voice_name = session.cloned_voice_name,
                                  !.voice_audio_path = session.voice_audio_path]

\* C28: progress of the clone flow: once a sample is accepted the session is
\* in the name step; a text message with a valid unregistered name moves it
\* to the description step with that name and the same sample; a text
\* message with the description clones the voice and leaves the session
\* idle.
C28_CloneFlowProgress ==
    /\ (/\ last.kind = "audio"
        /\ SessionBefore.awaiting_voice_audio
        /\ Acted.msg = "AskName")
       => SessionNow.awaiting_cloned_voice_name
    /\ (/\ last.kind = "text"
        /\ OnlyCloneNameStep(SessionBefore)
        /\ NameMatches(Strip(Acted.input))
        /\ Strip(Acted.input) \notin NamesBefore)
       => SessionNow = [SessionBefore EXCEPT !.awaiting_cloned_voice_name = FALSE,
                                             !.awaiting_cloned_voice_description = TRUE,
                                             !.cloned_voice_name = Strip(Acted.input)]
    /\ (/\ last.kind = "text"
        /\ OnlyCloneDescriptionStep(SessionBefore))
       => /\ Acted.call = "clone_voice" /\ Acted.ok
          /\ Acted.name = SessionBefore.cloned_voice_name
          /\ SessionNow = IdleSession

----------------------------------------------------------------------------
\* C29: when the voice of a parameter edit or of a description edit in
\* progress is no longer registered as the user's input arrives, the input
\* is answered with NotFound and raises nothing, the registry is as it was
\* (the voice is not created again) and the session leaves the step.
C29_NotFoundHandled ==
    /\ (/\ last.kind = "text"
        /\ SessionBefore.adjusting_param # Absent
        /\ SessionBefore.adjusting_param[2] \notin NamesBefore
        /\ Acted.call = "update_voice_settings")
       => /\ ~Acted.raised /\ Acted.msg = "NotFound"
          /\ Registry = Before
          /\ SessionNow = [SessionBefore EXCEPT !.adjusting_param = Absent]
    /\ (/\ last.kind = "text"
        /\ SessionBefore.adjusting_param = Absent
        /\ SessionBefore.editing_description # Absent
        /\ SessionBefore.editing_description \notin NamesBefore
        /\ Len(Strip(Acted.input)) <= MAX_DESCRIPTION_LENGTH)
       => /\ ~Acted.raised /\ Acted.msg = "NotFound"
          /\ Registry = Before
          /\ SessionNow = [SessionBefore EXCEPT !.editing_description = Absent]

----------------------------------------------------------------------------
\* C30: when the create that ends the creation flow is refused because the
\* name was registered in the meantime, the user is asked for another name:
\* the session is in the name step of the creation flow, not idle.
C30_AlreadyExistsReprompts ==
    (/\ last.kind = "text"
     /\ Acted.call = "create_voice"
     /\ Acted.msg = "AlreadyExists")
    => /\ Registry = Before
       /\ SessionNow.awaiting_voice_name
       /\ ~SessionNow.awaiting_voice_description

----------------------------------------------------------------------------
-----------------------------------------------------------------------------
(* The application's dispatch of updates: main builds the Application
   without concurrent_updates and registers every handler blocking, so an
   update is taken from the queue only when the handler of the one before it
   has returned.  A handler runs from Begin to Finish; the updates that
   arrive meanwhile wait in the queue. *)

MaxSerialEvents == 4

DispatcherFree_Concurrent == TRUE

\* the application takes the next update when no handler is running
DispatcherFree == dispatch.running = {}

\* the updates the users send while handlers run
SerialUpdates ==
    {[kind |-> "menu", input |-> <<"menu">>],
     [kind |-> "audio", input |-> [text |-> Absent, probe |-> "ok", duration |-> Num(5, 0)]],
     [kind |-> "text", input |-> Abc],
     [kind |-> "button", input |-> D_create_new_voice]}

\* the handler main registered for the update
HandlerOut(w, update) ==
    CASE update.kind = "menu" -> clone_voice_handler(w, update.user)
      [] update.kind = "audio" -> handle_audio(w, update.user, update.input, "ok")
      [] update.kind = "text" -> handle_text_input(w, update.user, update.input, "ok")
      [] update.kind = "button" -> button_callback(w, update.user, update.input, "ok")

\* an update of user u reaches the application's queue
Arrive(u, update) ==
    /\ dispatch.fetched < MaxSerialEvents
    /\ dispatch' = [dispatch EXCEPT
                      !.queue = Append(@, [user |-> u, kind |-> update.kind,
                                           input |-> update.input,
                                           id |-> dispatch.fetched + 1]),
                      !.fetched = @ + 1]
    /\ UNCHANGED <<config, heap, disk, library, tempfiles, user_data, now, last,
                   events, faults>>

\* the application hands the oldest update to its handler, which reads the
\* user's session
Begin ==
    /\ dispatch.queue # <<>>
    /\ DispatcherFree
    /\ dispatch' = [dispatch EXCEPT
                      !.queue = Tail(@),
                      !.running = @ \cup {[update |-> Head(dispatch.queue),
                                           seen |-> user_data[Head(dispatch.queue).user]]}]
    /\ UNCHANGED <<config, heap, disk, library, tempfiles, user_data, now, last,
                   events, faults>>

\* a running handler returns
Finish(r) ==
    /\ r \in dispatch.running
    /\ Serve(HandlerOut(World, r.update), r.update.kind, r.update.input, "ok", Nothing)
    /\ dispatch' = [dispatch EXCEPT !.running = @ \ {r}]

NextSerial ==
    \/ \E u \in Users, update \in SerialUpdates : Arrive(u, update)
    \/ Begin
    \/ \E r \in dispatch.running : Finish(r)

SpecSerial == Init /\ [][NextSerial]_vars

-----------------------------------------------------------------------------
\* the last update was an audio message that handle_audio took to the
\* "clone this voice" step, for a voice the settings menu offers the button
\* for and that is still registered
AtCloneThisStep ==
    /\ last.kind = "audio"
    /\ ~SessionBefore.awaiting_voice_audio
    /\ ~SessionBefore.awaiting_cloned_voice_name
    /\ ~SessionBefore.awaiting_cloned_voice_description
    /\ SessionBefore.cloning_voice # Absent
    /\ SessionBefore.cloning_voice # DEFAULT_VOICE_NAME
    /\ SessionBefore.cloning_voice \in NamesBefore

-----------------------------------------------------------------------------
(* One user with several steps pending at once: a parameter of abc being
   adjusted, a description of abc being edited, and the creation flow, with
   the names abc and xyz, a number and the word that skips the description. *)

MaxPriorityEvents == 5

PriorityTexts == {Abc, Xyz, OnePointTwo, Dash}
PriorityButtons ==
    {D_adjust \o Speed \o <<"_">> \o Abc, D_edit_desc \o Abc, D_create_new_voice}

NextPriority ==
    \/ \E text \in PriorityTexts :
          events < MaxPriorityEvents /\ TextMessage("u1", text, "ok")
    \/ \E data \in PriorityButtons :
          events < MaxPriorityEvents /\ ButtonPress("u1", data, "ok")

SpecPriority == Init /\ [][NextPriority]_vars

\* the steps a text message can belong to, in the order handle_text_input
\* tests them, and the session fields each of them owns
StepPending(session, i) ==
    CASE i = 1 -> session.adjusting_param # Absent
      [] i = 2 -> session.editing_description # Absent
      [] i = 3 -> session.awaiting_voice_name
      [] i = 4 -> session.awaiting_voice_description
      [] i = 5 -> session.pending_text # Absent

StepFields(i) ==
    CASE i = 1 -> {"adjusting_param"}
      [] i = 2 -> {"editing_description"}
      [] i = 3 -> {"awaiting_voice_name"}
      [] i = 4 -> {"awaiting_voice_description", "new_voice_name"}
      [] i = 5 -> {"pending_text"}

PendingSteps(session) == {i \in 1..5 : StepPending(session, i)}

\* the step of highest priority among the pending ones
FirstPending(session) ==
    CHOOSE i \in PendingSteps(session) : \A j \in PendingSteps(session) : i <= j

\* what the last update did is what step i does with a text
ConsumedBy(i) ==
    CASE i = 1 -> \/ Acted.call = "update_voice_settings"
                  \/ Acted.call = "none" /\ Acted.msg \in {"NotANumber", "OutOfRange"}
      [] i = 2 -> \/ Acted.call = "set_description"
                  \/ Acted.call = "none" /\ Acted.msg = "TooLong"
      [] i = 3 -> /\ Acted.call = "none"
                  /\ Acted.msg \in {"InvalidName", "AlreadyExists", "AskDescription"}
      [] i = 4 -> Acted.call = "create_voice"
      [] i = 5 -> /\ Acted.call = "none"
                  /\ Acted.msg \in {"TextTooLong", "TextTooShort", "ChooseVoice"}

\* the fields of the steps below step i are as the text found them
LowerStepsUnchanged(i) ==
    \A j \in (i + 1)..5 : \A f \in StepFields(j) : SessionNow[f] = SessionBefore[f]

\* C35 as stated: with several steps pending, a text message is consumed by
\* exactly one step, the first pending one in the order adjusting_param,
\* editing_description, awaiting_voice_name, awaiting_voice_description,
\* pending_text, and the flags and payload of every step below it are left
\* unchanged.
C35_PriorityFrame ==
    (last.kind = "text" /\ Cardinality(PendingSteps(SessionBefore)) >= 2)
    => /\ ConsumedBy(FirstPending(SessionBefore))
       /\ LowerStepsUnchanged(FirstPending(SessionBefore))

\* C35 amended: the text is consumed by the first pending step; the fields
\* of the steps below it are unchanged, except that a name accepted by the
\* awaiting_voice_name step starts the description step: it sets
\* awaiting_voice_description and stores the name in new_voice_name,
\* replacing the name a pending description step held.
C35_PriorityHandOver ==
    (last.kind = "text" /\ PendingSteps(SessionBefore) # {})
    => /\ ConsumedBy(FirstPending(SessionBefore))
       /\ IF FirstPending(SessionBefore) = 3 /\ Acted.msg = "AskDescription"
          THEN /\ SessionNow.awaiting_voice_description
               /\ SessionNow.new_voice_name = Strip(Acted.input)
               /\ LowerStepsUnchanged(4)
          ELSE LowerStepsUnchanged(FirstPending(SessionBefore))

\* a description arrives while a description edit of abc and the name step of
\* the creation flow are both pending: the edit takes it, the name step stays
C35_Witness ==
    /\ last.kind = "text"
    /\ SessionBefore.editing_description = Abc
    /\ SessionBefore.awaiting_voice_name
    /\ Acted.call = "set_description"
    /\ Acted.ok
    /\ SessionNow.editing_description = Absent
    /\ SessionNow.awaiting_voice_name

-----------------------------------------------------------------------------
(* One user who creates voices whose names hold underscores or the text of a
   button prefix, abc_sad and delete_voice_abc, next to abc, and presses the
   buttons the keyboards of these voices carry. *)

MaxNamesEvents == 4

AbcSad == <<"a","b","c","_","s","a","d">>
DeleteVoiceAbc == D_delete_voice \o Abc

NamesTexts == {AbcSad, DeleteVoiceAbc, Dash}

\* callback data as get_emotion_keyboard, get_language_keyboard,
\* get_voices_menu and the delete confirmation build them
NamesButtons ==
    {D_create_new_voice,
     D_set_emotion \o AbcSad \o <<"_">> \o Happy,
     D_set_emotion \o Abc \o <<"_">> \o Sad,
     D_set_lang \o AbcSad \o <<"_">> \o <<"e","n">>,
     D_select_voice \o DeleteVoiceAbc,
     D_delete_voice \o DeleteVoiceAbc,
     D_delete_voice \o AbcSad}

NextNames ==
    \/ \E text \in NamesTexts :
          events < MaxNamesEvents /\ TextMessage("u1", text, "ok")
    \/ \E data \in NamesButtons :
          events < MaxNamesEvents /\ ButtonPress("u1", data, "ok")

SpecNames == Init /\ [][NextNames]_vars

\* the last update was the button the keyboard of the registered voice V
\* carries for the value x under the prefix
ValueButton(prefix, V, x) ==
    /\ last.kind = "button"
    /\ V \in NamesBefore
    /\ Acted.input = prefix \o V \o <<"_">> \o x

\* the last update was the button the keyboard of the registered voice V
\* carries under the prefix
VoiceButton(prefix, V) ==
    /\ last.kind = "button"
    /\ V \in NamesBefore
    /\ Acted.input = prefix \o V

\* C33: the button set_emotion_<V>_<x> or set_lang_<V>_<x> built for a
\* registered voice V and a value x of the keyboard sets V's emotion or
\* language to x and changes no other profile, whatever valid name V is,
\* names with underscores included.
C33_ValueButtonTargets ==
    /\ \A V \in NamesBefore : \A x \in valid_emotions :
          ValueButton(D_set_emotion, V, x)
          => /\ Acted.call = "update_voice_settings"
             /\ Acted.name = V
             /\ Acted.ok
             /\ SettingsIn(Registry, V).emotion = x
             /\ OthersUnchanged(V)
    /\ \A V \in NamesBefore : \A x \in supported_languages :
          ValueButton(D_set_lang, V, x)
          => /\ Acted.call = "update_voice_settings"
             /\ Acted.name = V
             /\ Acted.ok
             /\ SettingsIn(Registry, V).language = x
             /\ OthersUnchanged(V)

\* C34: the buttons decoded by removing their prefix act on the voice they
\* were built for: select_voice_<V> selects V and delete_voice_<V> deletes V
\* and nothing else, also when V holds the text of the prefix.
C34_PrefixButtonTargets ==
    \A V \in NamesBefore :
        /\ VoiceButton(D_select_voice, V)
           => /\ Acted.call = "set_default_voice"
              /\ Acted.name = V
              /\ Acted.ok
              /\ Registry.default_voice = V
        /\ VoiceButton(D_delete_voice, V)
           => /\ Acted.call = "delete_voice"
              /\ Acted.name = V
              /\ OthersUnchanged(V)

-----------------------------------------------------------------------------
(* The way back to Idle, looked for among the sequences of at most MaxEscape
   updates of the user: texts, buttons, audio messages and the clone entry of
   the menu. *)

MaxEscape == 4

\* no awaiting flag is set in the session
NoAwaitingFlag(session) ==
    /\ ~session.awaiting_voice_name
    /\ ~session.awaiting_voice_description
    /\ ~session.awaiting_voice_audio
    /\ ~session.awaiting_cloned_voice_name
    /\ ~session.awaiting_cloned_voice_description

\* a name no voice of the runs explored has
FreshName == <<"n","e","w","_","1">>

\* the updates user u can send: a registered and a new name, a number, the
\* word that skips a description, the buttons and samples of the clone flows
EscapeUpdates(u) ==
    {[user |-> u, kind |-> "text", input |-> text] :
        text \in AudioTexts \cup {OnePointTwo, FreshName}}
    \cup {[user |-> u, kind |-> "button", input |-> data] :
             data \in AudioButtons \cup {D_create_new_voice}}
    \cup {[user |-> u, kind |-> "audio", input |-> message] : message \in Samples}
    \cup {[user |-> u, kind |-> "menu", input |-> <<"menu">>]}

\* some sequence of at most k updates of u leads from w to a session without
\* an awaiting flag
RECURSIVE CanReachIdle(_, _, _)
CanReachIdle(w, u, k) ==
    \/ NoAwaitingFlag(w.user_data[u])
    \/ /\ k > 0
       /\ \E update \in EscapeUpdates(u) :
             CanReachIdle(HandlerOut(w, update).w, u, k - 1)

\* C36: from every reachable state the user's own text, button and audio
\* messages can bring the session back to a state where no awaiting flag is
\* set.
C36_CanReturnToIdle ==
    last.who \in Users => CanReachIdle(World, last.who, MaxEscape)

====
